---- MODULE Spec2Model ----
(***************************************************************************)
(* A model of the NL-to-SQL chat application (nl_to_sql/nl_to_sql.py):     *)
(* the process-wide connection registry (_connections, get_db_conn), the   *)
(* per-session State (chat_history, db_name, is_connected, processing)     *)
(* and the event handler handle_submit with the pipeline                   *)
(* process_query_with_gemini it drives.                                    *)
(*                                                                         *)
(* Text is modelled as a tuple of one-character strings, so that lower,    *)
(* startswith, slicing, strip and endswith are computed character by       *)
(* character.  A model answer is a tuple of tokens: the two brace          *)
(* characters and brace-free runs of text (prose, or the member list of a  *)
(* JSON object).                                                           *)
(*                                                                         *)
(* Scheduling.  Every invocation of handle_submit is a task of one asyncio *)
(* event loop.  A task gives up the loop only at the yield of line 64      *)
(* (which hands an update to the framework) and at the await of the model  *)
(* call (line 199).  The yields of process_query_with_gemini (lines 163,   *)
(* 228, 234, 243) are consumed by the "async for ... pass" loop of line 75 *)
(* and hand the loop to nobody: the variable running names the task that   *)
(* holds the loop between two such points.                                 *)
(***************************************************************************)
EXTENDS Integers, Sequences, FiniteSets, TLC

(***************************************************************************)
(* Bounds of the model.                                                    *)
(***************************************************************************)
\* invocations of handle_submit in one behaviour (all sessions together)
MaxSubmits == 3
\* chunks a typed database name is built from (specification SpecConnect)
MaxNameChunks == 2
\* calls of duckdb.connect in one behaviour of specification SpecRegistry
MaxGets == 4
\* tokens of an enumerated model answer (specification SpecTurn)
MaxAnswerLen == 3
\* invocations of handle_submit in one behaviour of specification SpecTurn
MaxTurnSubmits == 3

Sessions == {"s1", "s2"}
Handlers == 1..MaxSubmits

(***************************************************************************)
(* Python values.                                                          *)
(***************************************************************************)
\* None, where a string is expected (dict.get of an absent key)
None == "None"
\* None, where a connection handle is expected; handles are 1, 2, ...
NoConn == 0

(***************************************************************************)
(* str methods, on tuples of characters.                                   *)
(***************************************************************************)
Whitespace == {" ", "\t", "\n"}

LowerCase(c) ==
    CASE c = "A" -> "a" [] c = "B" -> "b" [] c = "C" -> "c" [] c = "D" -> "d"
      [] c = "E" -> "e" [] c = "K" -> "k" [] c = "N" -> "n" [] c = "O" -> "o"
      [] c = "T" -> "t" [] c = "U" -> "u" [] OTHER -> c

RECURSIVE lower(_)
lower(s) == IF s = <<>> THEN <<>> ELSE <<LowerCase(Head(s))>> \o lower(Tail(s))

startswith(s, prefix) ==
    /\ Len(s) >= Len(prefix)
    /\ SubSeq(s, 1, Len(prefix)) = prefix

endswith(s, suffix) ==
    /\ Len(s) >= Len(suffix)
    /\ SubSeq(s, Len(s) - Len(suffix) + 1, Len(s)) = suffix

RECURSIVE lstrip(_)
lstrip(s) == IF s # <<>> /\ Head(s) \in Whitespace THEN lstrip(Tail(s)) ELSE s

RECURSIVE rstrip(_)
rstrip(s) ==
    IF s # <<>> /\ s[Len(s)] \in Whitespace
    THEN rstrip(SubSeq(s, 1, Len(s) - 1))
    ELSE s

strip(s) == rstrip(lstrip(s))

\* s[n:]
SliceFrom(s, n) == SubSeq(s, n + 1, Len(s))

(***************************************************************************)
(* The connect command of handle_submit (lines 67-70).                     *)
(***************************************************************************)
ConnectPrefix == <<"c", "o", "n", "n", "e", "c", "t", " ", "t", "o", " ">>
DuckdbExt == <<".", "d", "u", "c", "k", "d", "b">>

IsConnectCommand(question) == startswith(lower(question), ConnectPrefix)

\* mutant: the name is cut from the lower-cased question
ResolveDbFile_Lowered(question) ==
    LET db_file == strip(SliceFrom(lower(question), Len(ConnectPrefix)))
    IN  IF ~endswith(db_file, DuckdbExt) THEN db_file \o DuckdbExt ELSE db_file

\* lines 68-70
ResolveDbFile(question) ==
    LET db_file == strip(SliceFrom(question, Len(ConnectPrefix)))
    IN  IF ~endswith(db_file, DuckdbExt) THEN db_file \o DuckdbExt ELSE db_file

(***************************************************************************)
(* The files of config.DATA_DIR (seeded at lines 346-358) and their header *)
(* rows, and the names a model answer can carry.                           *)
(***************************************************************************)
CsvHeader(file_path) ==
    CASE file_path = "employees.csv" ->
             <<"id", "first_name", "last_name", "email", "department", "salary">>
      [] file_path = "members.csv" -> <<"id", "name", "join_date", "team">>
      [] OTHER -> <<>>

\* os.path.exists(os.path.join(config.DATA_DIR, file_path))
path_exists(file_path) == file_path \in {"employees.csv", "members.csv"}

(***************************************************************************)
(* The environment's answers: whether duckdb.connect opens the file, how   *)
(* the engine answers a statement.  A catalogue read (SHOW TABLES, PRAGMA  *)
(* table_info) on an open handle is taken to succeed: the program closes   *)
(* no handle.                                                              *)
(***************************************************************************)
OpenOutcomes == BOOLEAN
ReadOutcomes == {TRUE}
SqlOutcomes == {"rows", "empty", "error"}
LoadOutcomes == BOOLEAN

(***************************************************************************)
(* Python dict and list helpers.                                           *)
(***************************************************************************)
\* d[k] = v
DictSet(d, k, v) == [x \in DOMAIN d \cup {k} |-> IF x = k THEN v ELSE d[x]]

RECURSIVE SetToSeq(_)
SetToSeq(S) ==
    IF S = {} THEN <<>>
    ELSE LET x == CHOOSE y \in S : TRUE IN <<x>> \o SetToSeq(S \ {x})

(***************************************************************************)
(* Connection registry: _connections (line 22) maps a database name to a   *)
(* handle.  open_log records every call of duckdb.connect with its         *)
(* outcome; the handle a successful call returns is its place in the log.  *)
(***************************************************************************)
\* mutant: no look-up in the registry before opening
get_db_conn_NoCache(conns, log, db_name, open_ok) ==
    IF db_name = <<>> THEN [conn |-> NoConn, conns |-> conns, log |-> log]
    ELSE IF open_ok
         THEN LET l2 == Append(log, [db |-> db_name, ok |-> TRUE])
              IN  [conn |-> Len(l2), conns |-> DictSet(conns, db_name, Len(l2)),
                   log |-> l2]
         ELSE [conn |-> NoConn, conns |-> conns,
               log |-> Append(log, [db |-> db_name, ok |-> FALSE])]

\* mutant: the outcome of a failed open is stored too
get_db_conn_CacheFailure(conns, log, db_name, open_ok) ==
    IF db_name = <<>> THEN [conn |-> NoConn, conns |-> conns, log |-> log]
    ELSE IF db_name \notin DOMAIN conns
         THEN LET l2 == Append(log, [db |-> db_name, ok |-> open_ok])
              IN  [conn |-> IF open_ok THEN Len(l2) ELSE NoConn,
                   conns |-> DictSet(conns, db_name,
                                     IF open_ok THEN Len(l2) ELSE NoConn),
                   log |-> l2]
         ELSE [conn |-> conns[db_name], conns |-> conns, log |-> log]

\* mutant: the handle of a successful open is returned but not stored
get_db_conn_NotStored(conns, log, db_name, open_ok) ==
    IF db_name = <<>> THEN [conn |-> NoConn, conns |-> conns, log |-> log]
    ELSE IF db_name \notin DOMAIN conns
         THEN IF open_ok
              THEN LET l2 == Append(log, [db |-> db_name, ok |-> TRUE])
                   IN  [conn |-> Len(l2), conns |-> conns, log |-> l2]
              ELSE [conn |-> NoConn, conns |-> conns,
                    log |-> Append(log, [db |-> db_name, ok |-> FALSE])]
         ELSE [conn |-> conns[db_name], conns |-> conns, log |-> log]

\* lines 24-35
get_db_conn(conns, log, db_name, open_ok) ==
    IF db_name = <<>> THEN [conn |-> NoConn, conns |-> conns, log |-> log]
    ELSE IF db_name \notin DOMAIN conns
         THEN IF open_ok
              THEN LET l2 == Append(log, [db |-> db_name, ok |-> TRUE])
                   IN  [conn |-> Len(l2),
                        conns |-> DictSet(conns, db_name, Len(l2)),
                        log |-> l2]
              ELSE [conn |-> NoConn, conns |-> conns,
                    log |-> Append(log, [db |-> db_name, ok |-> FALSE])]
         ELSE [conn |-> conns[db_name], conns |-> conns, log |-> log]

\* the database file a handle is open on
DbOf(log, conn) == log[conn].db

(***************************************************************************)
(* Chat entries.  The text of a system entry is its template followed by   *)
(* the values formatted into it.  turn names the invocation of             *)
(* handle_submit that appended the entry.                                  *)
(***************************************************************************)
UserEntry(text, h) == [role |-> "user", text |-> text, turn |-> h]
SystemEntry(text, h) == [role |-> "system", text |-> text, turn |-> h]

(***************************************************************************)
(* The methods of State work on a context c: the registry (conns, log),    *)
(* the engine's tables (tabs), the session's chat_history (hist), the      *)
(* statements this turn has sent to the engine (sent), the turn (turn),    *)
(* and raised, set when the method ends in an exception it does not catch. *)
(***************************************************************************)
\* mutant: the entry takes the place of the last one
Say_Overwrite(c, text) ==
    [c EXCEPT !.hist = SubSeq(@, 1, Len(@) - 1) \o <<SystemEntry(text, c.turn)>>]

Say(c, text) == [c EXCEPT !.hist = Append(@, SystemEntry(text, c.turn))]

Send(c, by, conn, sql) ==
    [c EXCEPT !.sent = Append(@, [by |-> by, conn |-> conn, sql |-> sql])]

Got(c, g) == [c EXCEPT !.conns = g.conns, !.log = g.log]

\* the catalogue of the file a handle is open on; a file just created has none
Catalogue(tabs, db) == IF db \in DOMAIN tabs THEN tabs[db] ELSE <<>>
TablesOf(c, conn) == Catalogue(c.tabs, DbOf(c.log, conn))

\* lines 107-123
show_all_tables(c, db_name, open_ok, read_ok) ==
    LET g == get_db_conn(c.conns, c.log, db_name, open_ok)
        c1 == Got(c, g)
    IN  IF g.conn = NoConn
        THEN Say(c1, <<"Database connection lost.">>)
        ELSE LET c2 == Send(c1, "show_all_tables", g.conn, "SHOW TABLES;")
                 tables == DOMAIN TablesOf(c2, g.conn)
             IN  IF ~read_ok
                 THEN Say(c2, <<"Error getting table info:">>)
                 ELSE IF tables # {}
                      THEN Say(c2, <<"Tables in the database:", tables>>)
                      ELSE Say(c2, <<"No tables found in the database.">>)

\* mutant: the session is marked connected without looking at the handle
connect_to_db_Unchecked(c, db_file, open_ok, read_ok) ==
    LET g == get_db_conn(c.conns, c.log, db_file, open_ok)
        c1 == Got(c, g)
    IN  [connected |-> TRUE,
         c |-> show_all_tables(
                   Say(c1, <<"Successfully connected to", db_file>>),
                   db_file, open_ok, read_ok)]

\* lines 78-87; the result also tells whether db_name and is_connected were set
connect_to_db(c, db_file, open_ok, read_ok) ==
    LET g == get_db_conn(c.conns, c.log, db_file, open_ok)
        c1 == Got(c, g)
    IN  IF g.conn # NoConn
        THEN [connected |-> TRUE,
              c |-> show_all_tables(
                        Say(c1, <<"Successfully connected to", db_file>>),
                        db_file, open_ok, read_ok)]
        ELSE [connected |-> FALSE,
              c |-> Say(c1, <<"Failed to connect to database:", db_file>>)]

RECURSIVE SendTableInfo(_, _, _)
SendTableInfo(c, conn, names) ==
    IF names = <<>> THEN c
    ELSE SendTableInfo(Send(c, "get_db_schema", conn,
                            <<"PRAGMA table_info", Head(names)>>),
                       conn, Tail(names))

\* lines 89-105; the result carries the schema text and the context
get_db_schema(c, db_name, open_ok, read_ok) ==
    LET g == get_db_conn(c.conns, c.log, db_name, open_ok)
        c1 == Got(c, g)
    IN  IF g.conn = NoConn
        THEN [schema |-> <<"No database connection.">>, c |-> c1]
        ELSE LET c2 == Send(c1, "get_db_schema", g.conn, "SHOW TABLES;")
                 tabs == TablesOf(c2, g.conn)
             IN  IF ~read_ok
                 THEN [schema |-> <<"Error getting schema:">>, c |-> c2]
                 ELSE [schema |-> IF DOMAIN tabs # {}
                                  THEN <<"### Table:", tabs>>
                                  ELSE <<"No tables in the database.">>,
                       c |-> SendTableInfo(c2, g.conn, SetToSeq(DOMAIN tabs))]

\* lines 125-141; conn.execute(None) raises, like a statement the engine rejects
execute_sql(c, db_name, sql_query, open_ok, outcome) ==
    LET g == get_db_conn(c.conns, c.log, db_name, open_ok)
        c1 == Got(c, g)
    IN  IF g.conn = NoConn
        THEN Say(c1, <<"Database connection lost.">>)
        ELSE LET c2 == Send(c1, "execute_sql", g.conn, sql_query)
             IN  IF sql_query = None \/ outcome = "error"
                 THEN Say(c2, <<"Error executing SQL:">>)
                 ELSE IF outcome = "rows"
                      THEN Say(c2, <<"Query Result:">>)
                      ELSE Say(c2, <<"Query executed successfully, but returned no results.">>)

\* mutant: the listing is not refreshed after a load
create_table_from_csv_NoListing(c, db_name, file_path, table_name, open_ok, load_ok, read_ok) ==
    LET g == get_db_conn(c.conns, c.log, db_name, open_ok)
        c1 == Got(c, g)
    IN  IF file_path = None
        THEN [c1 EXCEPT !.raised = TRUE]
        ELSE IF g.conn = NoConn \/ ~path_exists(file_path)
        THEN Say(c1, <<"Error: File not found or no DB connection.", file_path>>)
        ELSE LET c2 == Send(c1, "create_table_from_csv", g.conn,
                             <<"CREATE OR REPLACE TABLE", table_name, file_path>>)
                 db == DbOf(c2.log, g.conn)
             IN  IF ~load_ok
                 THEN Say(c2, <<"Error creating table from CSV:">>)
                 ELSE Say([c2 EXCEPT !.tabs =
                               DictSet(@, db, DictSet(Catalogue(@, db), table_name,
                                                      CsvHeader(file_path)))],
                          <<"Successfully created table", table_name, file_path>>)

\* lines 143-158; os.path.join(config.DATA_DIR, None) raises TypeError (line 146)
create_table_from_csv(c, db_name, file_path, table_name, open_ok, load_ok, read_ok) ==
    LET g == get_db_conn(c.conns, c.log, db_name, open_ok)
        c1 == Got(c, g)
    IN  IF file_path = None
        THEN [c1 EXCEPT !.raised = TRUE]
        ELSE IF g.conn = NoConn \/ ~path_exists(file_path)
        THEN Say(c1, <<"Error: File not found or no DB connection.", file_path>>)
        ELSE LET c2 == Send(c1, "create_table_from_csv", g.conn,
                             <<"CREATE OR REPLACE TABLE", table_name, file_path>>)
                 db == DbOf(c2.log, g.conn)
             IN  IF ~load_ok
                 THEN Say(c2, <<"Error creating table from CSV:">>)
                 ELSE show_all_tables(
                          Say([c2 EXCEPT !.tabs =
                                   DictSet(@, db, DictSet(Catalogue(@, db), table_name,
                                                          CsvHeader(file_path)))],
                              <<"Successfully created table", table_name, file_path>>),
                          db_name, open_ok, read_ok)

(***************************************************************************)
(* The model's answer.  A response is a network fault (client.post raises) *)
(* or an HTTP response with a status; a 200 response either carries        *)
(* candidates[0].content.parts[0].text or does not (line 212 raises).      *)
(* The text is a tuple of tokens: "{", "}", the prose run "w", the member  *)
(* lists below, and NestedKey, a key whose value is the object after it.   *)
(***************************************************************************)
HTTP_OK == 200

MemberTokens ==
    {"m_sql", "m_sql_noquery", "m_ct", "m_ct_emp", "m_ct_swap", "m_ct_absent",
     "m_ct_nofile", "m_ct_noname", "m_other", "m_noaction"}
NestedKey == ",\"extra\":"

Dict(action, query, file_path, table_name) ==
    [action |-> action, query |-> query, file_path |-> file_path,
     table_name |-> table_name]

\* the object a member list denotes; an absent key reads None (dict.get)
MemberDict(m) ==
    CASE m = "m_sql" -> Dict("sql", "SELECT", None, None)
      [] m = "m_sql_noquery" -> Dict("sql", None, None, None)
      [] m = "m_ct" -> Dict("create_table", None, "members.csv", "members")
      [] m = "m_ct_emp" -> Dict("create_table", None, "employees.csv", "employees")
      [] m = "m_ct_swap" -> Dict("create_table", None, "employees.csv", "members")
      [] m = "m_ct_absent" -> Dict("create_table", None, "absent.csv", "members")
      [] m = "m_ct_nofile" -> Dict("create_table", None, None, "members")
      [] m = "m_ct_noname" -> Dict("create_table", None, "members.csv", None)
      [] m = "m_other" -> Dict("drop_table", None, None, "members")
      [] m = "m_noaction" -> Dict(None, "SELECT", None, None)

JsonError == [ok |-> FALSE, value |-> Dict(None, None, None, None)]

\* json.loads, for a text that is one object: "{" [members [key object]] "}"
RECURSIVE json_loads(_)
json_loads(s) ==
    IF Len(s) < 2 \/ s[1] # "{" \/ s[Len(s)] # "}" THEN JsonError
    ELSE LET inner == SubSeq(s, 2, Len(s) - 1)
         IN  IF inner = <<>>
             THEN [ok |-> TRUE, value |-> Dict(None, None, None, None)]
             ELSE IF inner[1] \notin MemberTokens THEN JsonError
             ELSE IF Len(inner) = 1
             THEN [ok |-> TRUE, value |-> MemberDict(inner[1])]
             ELSE IF inner[2] = NestedKey
                     /\ json_loads(SubSeq(inner, 3, Len(inner))).ok
             THEN [ok |-> TRUE, value |-> MemberDict(inner[1])]
             ELSE JsonError

\* str.find and str.rfind of one character: a 0-based index, or -1
RECURSIVE find(_, _)
find(s, ch) ==
    IF s = <<>> THEN -1
    ELSE IF Head(s) = ch THEN 0
    ELSE LET r == find(Tail(s), ch) IN IF r = -1 THEN -1 ELSE r + 1

RECURSIVE rfind(_, _)
rfind(s, ch) ==
    IF s = <<>> THEN -1
    ELSE IF s[Len(s)] = ch THEN Len(s) - 1
    ELSE rfind(SubSeq(s, 1, Len(s) - 1), ch)

\* s[a:b] for 0 <= a, 0 <= b
Slice(s, a, b) == SubSeq(s, a + 1, b)

\* mutant: the span ends at the first "}" instead of the last
extract_FirstClose(content) ==
    LET json_start == find(content, "{")
        json_end == find(content, "}") + 1
    IN  IF json_start # -1 /\ json_end # 0
        THEN json_loads(Slice(content, json_start, json_end))
        ELSE JsonError

\* lines 215-221: the object found in the answer, or the JSONDecodeError
extract(content) ==
    LET json_start == find(content, "{")
        json_end == rfind(content, "}") + 1
    IN  IF json_start # -1 /\ json_end # 0
        THEN json_loads(Slice(content, json_start, json_end))
        ELSE JsonError

HttpResponse(status, has_text, text) ==
    [fault |-> FALSE, status |-> status, has_text |-> has_text, text |-> text]
NetworkFault == [fault |-> TRUE, status |-> 0, has_text |-> FALSE, text |-> <<>>]
NoResponse == [fault |-> FALSE, status |-> 0, has_text |-> FALSE, text |-> <<>>]

\* answers with no object in them, and answers with one
MalformedOutputs ==
    {<<>>, <<"w">>, <<"{", "w">>, <<"w", "}">>, <<"}", "w", "{">>,
     <<"{", "w", "}">>, <<"{", "m_sql", "}", "w", "}">>}
WellFormedOutputs ==
    {<<"{", m, "}">> : m \in MemberTokens}
      \cup {<<"{", "}">>, <<"w", "{", "m_sql", "}", "w">>,
            <<"{", "m_ct", NestedKey, "{", "}", "}">>}
ModelOutputs == MalformedOutputs \cup WellFormedOutputs

\* every answer of at most MaxAnswerLen tokens over braces, prose and one member list
AnswerTokens == {"{", "}", "w", "m_sql"}

RECURSIVE TokenStrings(_)
TokenStrings(n) ==
    IF n = 0 THEN {<<>>}
    ELSE LET shorter == TokenStrings(n - 1)
         IN  shorter \cup {Append(s, t) : s \in shorter, t \in AnswerTokens}

\* the responses of the session machine: one of each kind
Responses ==
    {NetworkFault, HttpResponse(500, FALSE, <<>>)}
      \cup {HttpResponse(HTTP_OK, TRUE, t) :
               t \in {<<"w">>, <<"{", "m_sql", "}">>, <<"{", "m_ct", "}">>,
                      <<"{", "m_other", "}">>}}

\* the responses of specification SpecTurn
AllResponses ==
    {NetworkFault, HttpResponse(500, FALSE, <<>>),
     HttpResponse(201, TRUE, <<"{", "m_sql", "}">>), HttpResponse(HTTP_OK, FALSE, <<>>)}
      \cup {HttpResponse(HTTP_OK, TRUE, t) :
               t \in ModelOutputs \cup TokenStrings(MaxAnswerLen)}

(***************************************************************************)
(* What a user types.  name is the <name> of a connect command as typed    *)
(* (cmd tells whether the text was typed as one).                          *)
(***************************************************************************)
ConnectWords ==
    {ConnectPrefix,
     <<"C", "O", "N", "N", "E", "C", "T", " ", "T", "O", " ">>,
     <<"C", "o", "n", "n", "e", "c", "t", " ", "T", "o", " ">>}
Padding == {<<>>, <<" ">>}
NameChunks ==
    {<<"a">>, <<"B">>, <<" ">>, <<".">>, DuckdbExt, <<".", "D", "U", "C", "K", "D", "B">>,
     <<".", "d", "u", "c", "k">>, <<"d", "b">>}

RECURSIVE ChunkStrings(_)
ChunkStrings(n) ==
    IF n = 0 THEN {<<>>}
    ELSE LET shorter == ChunkStrings(n - 1)
         IN  shorter \cup {s \o c : s \in shorter, c \in NameChunks}

\* names as typed: no white space at either end
TypedNames == {s \in ChunkStrings(MaxNameChunks) : strip(s) = s}

ConnectCommand(words, pad1, name, pad2) ==
    [text |-> words \o pad1 \o name \o pad2, cmd |-> TRUE, name |-> name]
FreeText(text) == [text |-> text, cmd |-> FALSE, name |-> <<>>]

\* every connect command within the bounds
ConnectInputs ==
    {ConnectCommand(w, p1, n, p2) :
        w \in ConnectWords, p1 \in Padding, n \in TypedNames, p2 \in Padding}

\* the inputs of the session machine
Inputs ==
    {FreeText(<<>>), FreeText(<<" ">>), FreeText(<<"h", "i">>),
     ConnectCommand(ConnectPrefix, <<>>, <<"a">>, <<>>),
     ConnectCommand(<<"C", "O", "N", "N", "E", "C", "T", " ", "T", "O", " ">>,
                    <<" ">>, <<"B">> \o DuckdbExt, <<" ">>)}

(***************************************************************************)
(* State.  Process-wide: connections (_connections), open_log, tables (the *)
(* engine's catalogue per database file), running.  Per session: the four  *)
(* fields of State.  Per invocation h of handle_submit: where it stands    *)
(* (pc, named after the line it resumes at), its session, its locals       *)
(* (question, response, action, schema) and the statements it has sent.    *)
(***************************************************************************)
VARIABLES connections, open_log, tables, running,
          chat_history, db_name, is_connected, processing,
          pc, sess, question, typed, response, action, schema, sent,
          last_get

vars == <<connections, open_log, tables, running,
          chat_history, db_name, is_connected, processing,
          pc, sess, question, typed, response, action, schema, sent, last_get>>

\* no task holds the event loop
NoTask == 0
NoAction == Dict(None, None, None, None)
NoGet == [db_name |-> <<>>, conn |-> NoConn, called |-> FALSE]

Init ==
    /\ connections = <<>>
    /\ open_log = <<>>
    /\ tables = <<>>
    /\ running = NoTask
    /\ chat_history = [s \in Sessions |-> <<>>]
    /\ db_name = [s \in Sessions |-> <<>>]
    /\ is_connected = [s \in Sessions |-> FALSE]
    /\ processing = [s \in Sessions |-> FALSE]
    /\ pc = [h \in Handlers |-> "idle"]
    /\ sess = [h \in Handlers |-> CHOOSE s \in Sessions : TRUE]
    /\ question = [h \in Handlers |-> <<>>]
    /\ typed = [h \in Handlers |-> FreeText(<<>>)]
    /\ response = [h \in Handlers |-> NoResponse]
    /\ action = [h \in Handlers |-> NoAction]
    /\ schema = [h \in Handlers |-> <<>>]
    /\ sent = [h \in Handlers |-> <<>>]
    /\ last_get = NoGet

\* the context of invocation h, and the state after its methods have run
Ctx(h) ==
    [conns |-> connections, log |-> open_log, tabs |-> tables,
     hist |-> chat_history[sess[h]], sent |-> sent[h], turn |-> h,
     raised |-> FALSE]

Commit(h, c) ==
    /\ connections' = c.conns
    /\ open_log' = c.log
    /\ tables' = c.tabs
    /\ chat_history' = [chat_history EXCEPT ![sess[h]] = c.hist]
    /\ sent' = [sent EXCEPT ![h] = c.sent]

\* the invocations are numbered in the order they start
NextHandler == CHOOSE h \in Handlers : pc[h] = "idle" /\ \A k \in 1..(h - 1) : pc[k] # "idle"

(***************************************************************************)
(* handle_submit, lines 59-64: up to the yield.                            *)
(***************************************************************************)
\* mutant: the user entry is appended before the test of line 60
SubmitInput_AppendFirst(s, inp) ==
    /\ running = NoTask
    /\ \E h \in Handlers : pc[h] = "idle"
    /\ LET h == NextHandler
       IN  /\ sess' = [sess EXCEPT ![h] = s]
           /\ question' = [question EXCEPT ![h] = inp.text]
           /\ typed' = [typed EXCEPT ![h] = inp]
           /\ chat_history' =
                  [chat_history EXCEPT ![s] = Append(@, UserEntry(inp.text, h))]
           /\ IF strip(inp.text) = <<>> \/ processing[s]
              THEN pc' = [pc EXCEPT ![h] = "rejected"]
              ELSE pc' = [pc EXCEPT ![h] = "L66"]
    /\ UNCHANGED <<connections, open_log, tables, running, db_name, is_connected,
                   processing, response, action, schema, sent, last_get>>

SubmitInput(s, inp) ==
    /\ running = NoTask
    /\ \E h \in Handlers : pc[h] = "idle"
    /\ LET h == NextHandler
       IN  /\ sess' = [sess EXCEPT ![h] = s]
           /\ question' = [question EXCEPT ![h] = inp.text]
           /\ typed' = [typed EXCEPT ![h] = inp]
           /\ IF strip(inp.text) = <<>> \/ processing[s]
              THEN /\ pc' = [pc EXCEPT ![h] = "rejected"]
                   /\ UNCHANGED chat_history
              ELSE /\ pc' = [pc EXCEPT ![h] = "L66"]
                   /\ chat_history' =
                          [chat_history EXCEPT ![s] = Append(@, UserEntry(inp.text, h))]
    /\ UNCHANGED <<connections, open_log, tables, running, db_name, is_connected,
                   processing, response, action, schema, sent, last_get>>

Submit == \E s \in Sessions, inp \in Inputs : SubmitInput(s, inp)

(***************************************************************************)
(* handle_submit, lines 66-76, entered when the task is resumed after the  *)
(* yield of line 64.  Not connected: the connect command or the prompt,    *)
(* and the handler ends.  Connected: process_query_with_gemini up to its   *)
(* first yield (lines 162-163).                                            *)
(***************************************************************************)
Connect(h) ==
    /\ running = NoTask
    /\ pc[h] = "L66"
    /\ ~is_connected[sess[h]]
    /\ IsConnectCommand(question[h])
    /\ \E open_ok \in OpenOutcomes, read_ok \in ReadOutcomes :
          LET db_file == ResolveDbFile(question[h])
              r == connect_to_db(Ctx(h), db_file, open_ok, read_ok)
          IN  /\ Commit(h, r.c)
              /\ IF r.connected
                 THEN /\ db_name' = [db_name EXCEPT ![sess[h]] = db_file]
                      /\ is_connected' = [is_connected EXCEPT ![sess[h]] = TRUE]
                 ELSE UNCHANGED <<db_name, is_connected>>
    /\ pc' = [pc EXCEPT ![h] = "done"]
    /\ UNCHANGED <<running, processing, sess, question, typed, response, action,
                   schema, last_get>>

\* mutant: the question goes to the pipeline without the test of line 66
AskToConnect_Unchecked(h) ==
    /\ running = NoTask
    /\ pc[h] = "L66"
    /\ ~is_connected[sess[h]]
    /\ ~IsConnectCommand(question[h])
    /\ processing' = [processing EXCEPT ![sess[h]] = TRUE]
    /\ pc' = [pc EXCEPT ![h] = "L165"]
    /\ running' = h
    /\ UNCHANGED <<connections, open_log, tables, chat_history, db_name,
                   is_connected, sess, question, typed, response, action, schema,
                   sent, last_get>>

AskToConnect(h) ==
    /\ running = NoTask
    /\ pc[h] = "L66"
    /\ ~is_connected[sess[h]]
    /\ ~IsConnectCommand(question[h])
    /\ chat_history' = [chat_history EXCEPT ![sess[h]] =
           Append(@, SystemEntry(<<"Please connect to a database first.">>, h))]
    /\ pc' = [pc EXCEPT ![h] = "done"]
    /\ UNCHANGED <<connections, open_log, tables, running, db_name, is_connected,
                   processing, sess, question, typed, response, action, schema,
                   sent, last_get>>

\* mutant: a connect command of a connected session switches the database
StartPipeline_Switch(h) ==
    /\ running = NoTask
    /\ pc[h] = "L66"
    /\ is_connected[sess[h]]
    /\ processing' = [processing EXCEPT ![sess[h]] = TRUE]
    /\ pc' = [pc EXCEPT ![h] = "L165"]
    /\ running' = h
    /\ db_name' = IF IsConnectCommand(question[h])
                  THEN [db_name EXCEPT ![sess[h]] = ResolveDbFile(question[h])]
                  ELSE db_name
    /\ UNCHANGED <<connections, open_log, tables, chat_history,
                   is_connected, sess, question, typed, response, action, schema,
                   sent, last_get>>

StartPipeline(h) ==
    /\ running = NoTask
    /\ pc[h] = "L66"
    /\ is_connected[sess[h]]
    /\ processing' = [processing EXCEPT ![sess[h]] = TRUE]
    /\ pc' = [pc EXCEPT ![h] = "L165"]
    /\ running' = h
    /\ UNCHANGED <<connections, open_log, tables, chat_history, db_name,
                   is_connected, sess, question, typed, response, action, schema,
                   sent, last_get>>

(***************************************************************************)
(* process_query_with_gemini, lines 165-199: the schema, the prompt, and   *)
(* the request; the task then waits for the response.                      *)
(***************************************************************************)
Introspect(h) ==
    /\ running = h
    /\ pc[h] = "L165"
    /\ \E open_ok \in OpenOutcomes, read_ok \in ReadOutcomes :
          LET r == get_db_schema(Ctx(h), db_name[sess[h]], open_ok, read_ok)
          IN  /\ Commit(h, r.c)
              /\ schema' = [schema EXCEPT ![h] = r.schema]
    /\ pc' = [pc EXCEPT ![h] = "L199"]
    /\ running' = NoTask
    /\ UNCHANGED <<db_name, is_connected, processing, sess, question, typed,
                   response, action, last_get>>

(***************************************************************************)
(* process_query_with_gemini, lines 199-243, entered when the response (or *)
(* the fault) arrives.  on_response gives the context after lines 206-237  *)
(* and the line the task goes on at: 229 or 235 after the yield of a       *)
(* dispatched action, 241 (the finally clause) otherwise.                  *)
(***************************************************************************)
\* line 206
IsApiError(status) == status # HTTP_OK

\* mutant: a turn that ends in an error goes back to the model call
Outcome_Retry(c, goto, act) ==
    [c |-> c, goto |-> IF goto = "L241" /\ act = NoAction THEN "L199" ELSE goto,
     action |-> act]

Outcome(c, goto, act) == [c |-> c, goto |-> goto, action |-> act]

\* mutant: an unknown action ends the turn without a message
on_response_SilentUnknown(c, resp) ==
    IF resp.fault
    THEN Outcome(Say(c, <<"An error occurred:">>), "L241", NoAction)
    ELSE IF IsApiError(resp.status)
    THEN Outcome(Say(c, <<"API Error:">>), "L241", NoAction)
    ELSE IF ~resp.has_text
    THEN Outcome(Say(c, <<"An error occurred:">>), "L241", NoAction)
    ELSE LET result_json == extract(resp.text)
             act == result_json.value
         IN  IF ~result_json.ok
             THEN Outcome(Say(c, <<"An error occurred:">>), "L241", NoAction)
             ELSE IF act.action = "sql"
             THEN Outcome(Say(c, <<"Generated SQL:", act.query>>), "L229", act)
             ELSE IF act.action = "create_table"
             THEN Outcome(Say(c, <<"Executing command: Create table",
                                   act.table_name, act.file_path>>), "L235", act)
             ELSE Outcome(c, "L241", act)

on_response(c, resp) ==
    IF resp.fault
    THEN Outcome(Say(c, <<"An error occurred:">>), "L241", NoAction)
    ELSE IF IsApiError(resp.status)
    THEN Outcome(Say(c, <<"API Error:">>), "L241", NoAction)
    ELSE IF ~resp.has_text
    THEN Outcome(Say(c, <<"An error occurred:">>), "L241", NoAction)
    ELSE LET result_json == extract(resp.text)
             act == result_json.value
         IN  IF ~result_json.ok
             THEN Outcome(Say(c, <<"An error occurred:">>), "L241", NoAction)
             ELSE IF act.action = "sql"
             THEN Outcome(Say(c, <<"Generated SQL:", act.query>>), "L229", act)
             ELSE IF act.action = "create_table"
             THEN Outcome(Say(c, <<"Executing command: Create table",
                                   act.table_name, act.file_path>>), "L235", act)
             ELSE Outcome(Say(c, <<"The model returned an unknown action.">>),
                          "L241", act)

\* mutant: the flag is not cleared when the turn ends
Finally_Skip(proc, s) == proc

\* lines 241-243: the finally clause, up to its yield
Finally(proc, s) == [proc EXCEPT ![s] = FALSE]

ModelReturnsFrom(h, answers) ==
    /\ running = NoTask
    /\ pc[h] = "L199"
    /\ \E resp \in answers :
          LET r == on_response(Ctx(h), resp)
          IN  /\ Commit(h, r.c)
              /\ response' = [response EXCEPT ![h] = resp]
              /\ action' = [action EXCEPT ![h] = r.action]
              /\ IF r.goto = "L241"
                 THEN /\ processing' = Finally(processing, sess[h])
                      /\ pc' = [pc EXCEPT ![h] = "L243"]
                 ELSE /\ UNCHANGED processing
                      /\ pc' = [pc EXCEPT ![h] = r.goto]
    /\ running' = h
    /\ UNCHANGED <<db_name, is_connected, sess, question, typed, schema, last_get>>

ModelReturns(h) == ModelReturnsFrom(h, Responses)

\* line 229, then the finally clause
ExecuteSql(h) ==
    /\ running = h
    /\ pc[h] = "L229"
    /\ \E open_ok \in OpenOutcomes, outcome \in SqlOutcomes :
          Commit(h, execute_sql(Ctx(h), db_name[sess[h]], action[h].query,
                                open_ok, outcome))
    /\ processing' = Finally(processing, sess[h])
    /\ pc' = [pc EXCEPT ![h] = "L243"]
    /\ UNCHANGED <<running, db_name, is_connected, sess, question, typed, response,
                   action, schema, last_get>>

\* line 235, the except clause of line 239 if it raises, then the finally clause
CreateTable(h) ==
    /\ running = h
    /\ pc[h] = "L235"
    /\ \E open_ok \in OpenOutcomes, load_ok \in LoadOutcomes, read_ok \in ReadOutcomes :
          LET c == create_table_from_csv(Ctx(h), db_name[sess[h]], action[h].file_path,
                                         action[h].table_name, open_ok, load_ok, read_ok)
          IN  Commit(h, IF c.raised THEN Say(c, <<"An error occurred:">>) ELSE c)
    /\ processing' = Finally(processing, sess[h])
    /\ pc' = [pc EXCEPT ![h] = "L243"]
    /\ UNCHANGED <<running, db_name, is_connected, sess, question, typed, response,
                   action, schema, last_get>>

\* after the yield of line 243 the generator, the loop of line 75 and the handler
\* end, and the locals of process_query_with_gemini with them
Finish(h) ==
    /\ running = h
    /\ pc[h] = "L243"
    /\ pc' = [pc EXCEPT ![h] = "done"]
    /\ running' = NoTask
    /\ response' = [response EXCEPT ![h] = NoResponse]
    /\ action' = [action EXCEPT ![h] = NoAction]
    /\ schema' = [schema EXCEPT ![h] = <<>>]
    /\ UNCHANGED <<connections, open_log, tables, chat_history, db_name,
                   is_connected, processing, sess, question, typed, sent,
                   last_get>>

Step(h) ==
    \/ Connect(h)
    \/ AskToConnect(h)
    \/ StartPipeline(h)
    \/ Introspect(h)
    \/ ModelReturns(h)
    \/ ExecuteSql(h)
    \/ CreateTable(h)
    \/ Finish(h)

Next == Submit \/ \E h \in Handlers : Step(h)

Spec == Init /\ [][Next]_vars

(***************************************************************************)
(* FairSpec: the turns of one session, in every interleaving, under the    *)
(* event loop's fairness: a task that can run is run, and the model call   *)
(* returns or fails (the request carries a timeout, line 203).             *)
(***************************************************************************)
SessionInputs ==
    {FreeText(<<"h", "i">>), ConnectCommand(ConnectPrefix, <<>>, <<"a">>, <<>>)}

SessionSubmit == \E inp \in SessionInputs : SubmitInput("s1", inp)

SessionNext == SessionSubmit \/ \E h \in Handlers : Step(h)

FairSpec == Init /\ [][SessionNext]_vars /\ WF_vars(\E h \in Handlers : Step(h))

(***************************************************************************)
(* SpecTurn: one session whose user submits when no turn is under way,     *)
(* with every response within the bounds.                                  *)
(***************************************************************************)
TurnInputs ==
    {FreeText(<<>>), FreeText(<<" ">>), FreeText(<<"h", "i">>),
     ConnectCommand(ConnectPrefix, <<>>, <<"a">>, <<>>)}

TurnSubmit ==
    /\ \A h \in Handlers : pc[h] \in {"idle", "done", "rejected"}
    /\ Cardinality({h \in Handlers : pc[h] # "idle"}) < MaxTurnSubmits
    /\ \E inp \in TurnInputs : SubmitInput("s1", inp)

ModelReturnsAny(h) == ModelReturnsFrom(h, AllResponses)

TurnStep(h) ==
    \/ Connect(h)
    \/ AskToConnect(h)
    \/ StartPipeline(h)
    \/ Introspect(h)
    \/ ModelReturnsAny(h)
    \/ ExecuteSql(h)
    \/ CreateTable(h)
    \/ Finish(h)

TurnNext == TurnSubmit \/ \E h \in Handlers : TurnStep(h)

SpecTurn == Init /\ [][TurnNext]_vars

(***************************************************************************)
(* SpecConnect: one submission, drawn from every connect command within    *)
(* the bounds, in a fresh session.                                         *)
(***************************************************************************)
SubmitCommand ==
    /\ \A h \in Handlers : pc[h] = "idle"
    /\ \E s \in Sessions, inp \in ConnectInputs : SubmitInput(s, inp)

ConnectNext == SubmitCommand \/ \E h \in Handlers : Connect(h)

SpecConnect == Init /\ [][ConnectNext]_vars

(***************************************************************************)
(* SpecRegistry: get_db_conn called with any names in any order.           *)
(***************************************************************************)
RegistryNames == {<<>>, <<"a">> \o DuckdbExt, <<"B">> \o DuckdbExt}

GetCall ==
    /\ Len(open_log) < MaxGets
    /\ \E name \in RegistryNames, open_ok \in OpenOutcomes :
          LET g == get_db_conn(connections, open_log, name, open_ok)
          IN  /\ connections' = g.conns
              /\ open_log' = g.log
              /\ last_get' = [db_name |-> name, conn |-> g.conn, called |-> TRUE]
    /\ UNCHANGED <<tables, running, chat_history, db_name, is_connected, processing,
                   pc, sess, question, typed, response, action, schema, sent>>

SpecRegistry == Init /\ [][GetCall]_vars

(***************************************************************************)
(* Vocabulary of the properties.                                           *)
(***************************************************************************)
\* h is inside process_query_with_gemini with its finally clause still to run
InTurn(h) == pc[h] \in {"L165", "L199", "L229", "L235"}
\* h waits for the model's response
ModelCallInFlight(h) == pc[h] = "L199"
\* h has run the finally clause of its turn and has not been resumed since
TurnOver(h) == pc[h] = "L243"

\* the texts of the system entries turn h appended, in order
RECURSIVE SystemTexts(_, _)
SystemTexts(hist, h) ==
    IF hist = <<>> THEN <<>>
    ELSE LET rest == SystemTexts(Tail(hist), h)
         IN  IF Head(hist).role = "system" /\ Head(hist).turn = h
             THEN <<Head(hist).text>> \o rest
             ELSE rest

Said(h) == SystemTexts(chat_history[sess[h]], h)

\* the statements turn h sent after the schema introspection
Dispatched(h) == SelectSeq(sent[h], LAMBDA st : st.by # "get_db_schema")

\* the database file a connect command names: <name>, with the extension
\* appended unless <name> ends with it
NamedDbFile(inp) ==
    IF endswith(inp.name, DuckdbExt) THEN inp.name ELSE inp.name \o DuckdbExt

(***************************************************************************)
(* C1.  Single flight: in one session, at most one invocation of           *)
(* handle_submit is inside the pipeline (model call awaited, SQL or table  *)
(* load still to run) at any time.                                         *)
(***************************************************************************)
C1_SingleFlight ==
    \A s \in Sessions :
        Cardinality({h \in Handlers : sess[h] = s /\ InTurn(h)}) <= 1

(***************************************************************************)
(* C2.  A turn that has entered the pipeline eventually runs its finally   *)
(* clause, whatever its outcome, and right then processing is false and    *)
(* the session is still connected; so a session whose processing flag is   *)
(* set eventually has it cleared while connected; and processing is never  *)
(* true unless a turn of the session is in progress.                       *)
(***************************************************************************)
C2_NotBusyWithoutTurn ==
    \A s \in Sessions :
        processing[s] => \E h \in Handlers : sess[h] = s /\ InTurn(h)

C2_TurnReturnsToIdle ==
    /\ []C2_NotBusyWithoutTurn
    /\ \A h \in Handlers :
          InTurn(h) ~> (TurnOver(h) /\ ~processing[sess[h]] /\ is_connected[sess[h]])
    /\ \A s \in Sessions :
          processing[s] ~> (~processing[s] /\ is_connected[s])

\* a turn whose query failed has ended, and its session is idle and connected
C2_Witness ==
    \E h \in Handlers :
        /\ TurnOver(h)
        /\ Said(h) = <<<<"Generated SQL:", "SELECT">>, <<"Error executing SQL:">>>>
        /\ ~processing[sess[h]]
        /\ is_connected[sess[h]]

(***************************************************************************)
(* The model's answer as the properties describe it: the span from the     *)
(* first "{" to the last "}", if there is one, and the object it holds.    *)
(***************************************************************************)
Positions(text, ch) == {i \in 1..Len(text) : text[i] = ch}
First(S) == CHOOSE i \in S : \A j \in S : i <= j
Last(S) == CHOOSE i \in S : \A j \in S : j <= i

NoBracePair(text) ==
    \/ Positions(text, "{") = {}
    \/ Positions(text, "}") = {}
    \/ Last(Positions(text, "}")) < First(Positions(text, "{"))

LocatedSpan(text) ==
    SubSeq(text, First(Positions(text, "{")), Last(Positions(text, "}")))

MalformedAnswer(text) == NoBracePair(text) \/ ~json_loads(LocatedSpan(text)).ok

ParsedObject(text) == json_loads(LocatedSpan(text)).value

\* h has received a 200 response with a text, and its turn has not ended
Answered(h) ==
    /\ pc[h] \in {"L229", "L235", "L243"}
    /\ ~response[h].fault
    /\ response[h].status = HTTP_OK
    /\ response[h].has_text

(***************************************************************************)
(* C3.  When the model's answer has no "{" ... "}" pair, or the span from  *)
(* its first "{" to its last "}" is not valid JSON, the turn goes straight *)
(* to its end: it has appended exactly one system entry, the error, it has *)
(* sent the engine no statement (the schema introspection before the model *)
(* call aside), processing is false and the session is connected.          *)
(***************************************************************************)
C3_MalformedAnswerIsOneError ==
    \A h \in Handlers :
        (Answered(h) /\ MalformedAnswer(response[h].text)) =>
            /\ TurnOver(h)
            /\ Said(h) = << <<"An error occurred:">> >>
            /\ Dispatched(h) = <<>>
            /\ ~processing[sess[h]]
            /\ is_connected[sess[h]]

\* the answer "}w{": both braces, the last "}" before the first "{"
C3_Witness ==
    \E h \in Handlers :
        /\ Answered(h)
        /\ response[h].text = <<"}", "w", "{">>
        /\ TurnOver(h)
        /\ Len(Said(h)) = 1

(***************************************************************************)
(* C4.  When the parsed object has action "sql" and no query, or action    *)
(* "create_table" and no file_path or no table_name, nothing is            *)
(* dispatched: the turn is over, no statement or load was attempted and no *)
(* "Generated SQL" or "Executing command" entry was appended.              *)
(***************************************************************************)
LacksRequiredField(obj) ==
    \/ obj.action = "sql" /\ obj.query = None
    \/ obj.action = "create_table" /\ (obj.file_path = None \/ obj.table_name = None)

C4_MissingFieldIsNotDispatched ==
    \A h \in Handlers :
        (/\ Answered(h)
         /\ ~MalformedAnswer(response[h].text)
         /\ LacksRequiredField(ParsedObject(response[h].text))) =>
            /\ TurnOver(h)
            /\ Dispatched(h) = <<>>
            /\ \A i \in 1..Len(Said(h)) :
                  Said(h)[i][1] \notin {"Generated SQL:", "Executing command: Create table"}

(***************************************************************************)
(* C5.  When the parsed object has no action, or an action other than      *)
(* "sql" and "create_table", the turn goes straight to its end with        *)
(* exactly one system entry, which reports the unknown action, and with no *)
(* statement sent to the engine (the schema introspection aside).          *)
(***************************************************************************)
C5_UnknownActionIsAnError ==
    \A h \in Handlers :
        (/\ Answered(h)
         /\ ~MalformedAnswer(response[h].text)
         /\ ParsedObject(response[h].text).action \notin {"sql", "create_table"}) =>
            /\ TurnOver(h)
            /\ Said(h) = << <<"The model returned an unknown action.">> >>
            /\ Dispatched(h) = <<>>

\* an object without an action field
C5_Witness ==
    \E h \in Handlers :
        /\ Answered(h)
        /\ response[h].text = <<"{", "m_noaction", "}">>
        /\ TurnOver(h)
        /\ Len(Said(h)) = 1

(***************************************************************************)
(* C6.  When a disconnected session's handler resumes with a connect       *)
(* command, get_db_conn is tried for the named database file.  If the      *)
(* registry then holds a handle for it, the session is connected with      *)
(* db_name set to that file, and the success entry and a table listing     *)
(* are appended; if not, the session stays disconnected with db_name       *)
(* unchanged and the failure entry is appended.                            *)
(***************************************************************************)
IsListing(entry) ==
    /\ entry.role = "system"
    /\ entry.text[1] \in {"Tables in the database:", "No tables found in the database."}

C6_ConnectStep(h) ==
    LET s == sess[h]
        id == NamedDbFile(typed[h])
        before == chat_history[s]
        after == chat_history'[s]
    IN  (pc[h] = "L66" /\ pc'[h] # "L66" /\ ~is_connected[s] /\ typed[h].cmd) =>
            /\ \/ id \in DOMAIN connections
               \/ /\ Len(open_log') = Len(open_log) + 1
                  /\ open_log'[Len(open_log')].db = id
            /\ IF id \in DOMAIN connections'
               THEN /\ is_connected'[s]
                    /\ db_name'[s] = id
                    /\ Len(after) = Len(before) + 2
                    /\ SubSeq(after, 1, Len(before)) = before
                    /\ after[Len(before) + 1] =
                           SystemEntry(<<"Successfully connected to", id>>, h)
                    /\ IsListing(after[Len(after)])
               ELSE /\ ~is_connected'[s]
                    /\ db_name'[s] = db_name[s]
                    /\ after = Append(before,
                           SystemEntry(<<"Failed to connect to database:", id>>, h))

C7_NeverConnectedIsQuiet ==
    \A s \in Sessions :
        ~is_connected[s] =>
            \A h \in Handlers :
                (pc[h] # "idle" /\ sess[h] = s) =>
                    /\ pc[h] \in {"L66", "done", "rejected"}
                    /\ sent[h] = <<>>

C7_OtherTextStep(h) ==
    LET s == sess[h]
    IN  (pc[h] = "L66" /\ pc'[h] # "L66" /\ ~is_connected[s] /\ ~typed[h].cmd) =>
            /\ pc'[h] = "done"
            /\ ~is_connected'[s]
            /\ db_name' = db_name
            /\ processing' = processing
            /\ chat_history'[s] = Append(chat_history[s],
                   SystemEntry(<<"Please connect to a database first.">>, h))
            /\ UNCHANGED <<connections, open_log, tables, sent>>

C7_ConnectFirst ==
    /\ []C7_NeverConnectedIsQuiet
    /\ [][\A h \in Handlers : C7_OtherTextStep(h)]_vars

\* a disconnected session has answered a question with the prompt
C7_Witness ==
    \E h \in Handlers :
        /\ pc[h] = "done"
        /\ ~typed[h].cmd
        /\ ~is_connected[sess[h]]
        /\ Said(h) = << <<"Please connect to a database first.">> >>

(***************************************************************************)
(* C8.  For every connect command, whatever the letter case of its words   *)
(* and of <name>, it is taken as a connect command and the database file   *)
(* passed to get_db_conn is <name> as typed, followed by ".duckdb" exactly *)
(* when <name> does not end with ".duckdb".                                *)
(***************************************************************************)
C8_ResolvedIdentifier ==
    \A h \in Handlers :
        /\ (pc[h] = "L66" /\ typed[h].cmd) => IsConnectCommand(question[h])
        /\ (pc[h] = "done" /\ typed[h].cmd) =>
              /\ Len(open_log) = 1
              /\ open_log[1].db = NamedDbFile(typed[h])

\* "CONNECT TO B": upper-case words, an upper-case name without the extension
C8_Witness ==
    \E h \in Handlers :
        /\ pc[h] = "done"
        /\ typed[h].text = <<"C", "O", "N", "N", "E", "C", "T", " ", "T", "O", " ", "B">>
        /\ Len(open_log) = 1
        /\ open_log[1].db = <<"B">> \o DuckdbExt

(***************************************************************************)
(* C9.  Over any sequence of get_db_conn calls, duckdb.connect succeeds at *)
(* most once per name, the registry's handle for a name is the one that    *)
(* call returned, a handle once stored is neither removed nor replaced,    *)
(* and a call for a stored name returns the stored handle without opening. *)
(***************************************************************************)
SuccessfulOpens(name) ==
    {i \in 1..Len(open_log) : open_log[i].db = name /\ open_log[i].ok}

C9_OneHandlePerName ==
    /\ \A name \in RegistryNames : Cardinality(SuccessfulOpens(name)) <= 1
    /\ \A name \in DOMAIN connections : connections[name] \in SuccessfulOpens(name)

C9_CachedCall ==
    \A name \in DOMAIN connections :
        /\ name \in DOMAIN connections'
        /\ connections'[name] = connections[name]
        /\ (last_get'.called /\ last_get'.db_name = name) =>
              /\ last_get'.conn = connections[name]
              /\ open_log' = open_log

C9_RegistryIdempotent == []C9_OneHandlePerName /\ [][C9_CachedCall]_vars

\* a.duckdb was opened first, another open followed, and a later call for
\* a.duckdb returned the first handle
C9_Witness ==
    /\ Len(open_log) >= 2
    /\ open_log[1] = [db |-> <<"a">> \o DuckdbExt, ok |-> TRUE]
    /\ last_get = [db_name |-> <<"a">> \o DuckdbExt, conn |-> 1, called |-> TRUE]

(***************************************************************************)
(* C10.  A get_db_conn call whose open fails returns no handle and leaves  *)
(* the registry as it was, without an entry for the name; a call for a     *)
(* name the registry does not hold tries the open (again); a call with the *)
(* empty name returns no handle and touches neither registry nor engine.   *)
(***************************************************************************)
C10_Call ==
    LET name == last_get'.db_name
    IN  last_get'.called =>
            /\ name = <<>> =>
                  /\ last_get'.conn = NoConn
                  /\ connections' = connections
                  /\ open_log' = open_log
            /\ (name # <<>> /\ name \notin DOMAIN connections) =>
                  /\ Len(open_log') = Len(open_log) + 1
                  /\ open_log'[Len(open_log')].db = name
            /\ (name # <<>> /\ last_get'.conn = NoConn) =>
                  /\ connections' = connections
                  /\ name \notin DOMAIN connections'

C10_FailedOpenIsNotCached == [][C10_Call]_vars

\* an open of a.duckdb failed and a later one succeeded
C10_Witness ==
    \E i, j \in 1..Len(open_log) :
        /\ i < j
        /\ open_log[i] = [db |-> <<"a">> \o DuckdbExt, ok |-> FALSE]
        /\ open_log[j] = [db |-> <<"a">> \o DuckdbExt, ok |-> TRUE]
        /\ connections[<<"a">> \o DuckdbExt] = j
        /\ last_get = [db_name |-> <<"a">> \o DuckdbExt, conn |-> j, called |-> TRUE]

(***************************************************************************)
(* C11.  Every invocation of handle_submit that was not rejected has       *)
(* appended exactly one user entry, its question, before any of its system *)
(* entries, and by the time its turn is over (connect attempt, prompt, or  *)
(* pipeline run with any outcome) it has appended at least one system      *)
(* entry.                                                                  *)
(***************************************************************************)
\* the entries invocation h appended to its session's history, in order
EntriesOf(h) == SelectSeq(chat_history[sess[h]], LAMBDA e : e.turn = h)

Accepted(h) == pc[h] \notin {"idle", "rejected"}
Ended(h) == pc[h] \in {"L243", "done"}

C11_UserThenSystem ==
    \A h \in Handlers :
        Accepted(h) =>
            /\ EntriesOf(h) # <<>>
            /\ EntriesOf(h)[1] = UserEntry(question[h], h)
            /\ \A i \in 2..Len(EntriesOf(h)) : EntriesOf(h)[i].role = "system"
            /\ Ended(h) => Len(EntriesOf(h)) >= 2

\* a turn whose statement returned no rows has ended: one user entry, then
\* the generated SQL and the report
C11_Witness ==
    \E h \in Handlers :
        /\ pc[h] = "done"
        /\ Len(EntriesOf(h)) = 3
        /\ Said(h) = <<<<"Generated SQL:", "SELECT">>,
                       <<"Query executed successfully, but returned no results.">>>>

(***************************************************************************)
(* C12.  chat_history only grows at its end: in every step, every          *)
(* session's history before the step is a prefix of its history after the  *)
(* step; and every entry is a user entry or a system entry.                *)
(***************************************************************************)
IsPrefix(old, new) == Len(old) <= Len(new) /\ SubSeq(new, 1, Len(old)) = old

C12_RolesAreUserOrSystem ==
    \A s \in Sessions :
        \A i \in 1..Len(chat_history[s]) : chat_history[s][i].role \in {"user", "system"}

C12_AppendOnly ==
    /\ []C12_RolesAreUserOrSystem
    /\ [][\A s \in Sessions : IsPrefix(chat_history[s], chat_history'[s])]_vars

\* a history of two turns: a connect command and a question, each answered
C12_Witness ==
    \E s \in Sessions :
        /\ Len(chat_history[s]) >= 6
        /\ \E i, j \in 1..Len(chat_history[s]) :
              /\ i < j
              /\ chat_history[s][i].role = "user"
              /\ chat_history[s][j].role = "user"
              /\ chat_history[s][Len(chat_history[s])].role = "system"

(***************************************************************************)
(* C13.  In a turn whose action is dispatched, the "Generated SQL" or      *)
(* "Executing command" entry is appended before the statement is sent to   *)
(* the engine and comes before the turn's result or error entry; and the   *)
(* session's processing flag is still set while the result or error entry  *)
(* is yet to be appended.                                                  *)
(***************************************************************************)
IntermediateTexts == {"Generated SQL:", "Executing command: Create table"}

\* the statements the executor and the loader of turn h sent
ActionStatements(h) ==
    SelectSeq(sent[h], LAMBDA st : st.by \in {"execute_sql", "create_table_from_csv"})

\* h has appended its intermediate entry and is about to run the action
AboutToDispatch(h) == pc[h] \in {"L229", "L235"}

C13_EntryOrder ==
    \A h \in Handlers :
        /\ AboutToDispatch(h) =>
              /\ Len(Said(h)) = 1
              /\ Said(h)[1][1] \in IntermediateTexts
              /\ Dispatched(h) = <<>>
        /\ (Ended(h) /\ \E i \in 1..Len(Said(h)) : Said(h)[i][1] \in IntermediateTexts) =>
              /\ Len(Said(h)) >= 2
              /\ Said(h)[1][1] \in IntermediateTexts
              /\ \A i \in 2..Len(Said(h)) : Said(h)[i][1] \notin IntermediateTexts
        /\ ActionStatements(h) # <<>> =>
              /\ Ended(h)
              /\ Said(h)[1][1] \in IntermediateTexts

C13_BusyUntilTerminal ==
    \A h \in Handlers : AboutToDispatch(h) => processing[sess[h]]

C13_IntermediateThenTerminal == C13_EntryOrder /\ C13_BusyUntilTerminal

(***************************************************************************)
(* C14.  A turn only moves forward through its stages: the schema is read  *)
(* (line 165), then the request is posted (line 199), then the response is *)
(* taken apart and the action dispatched (lines 206-235), then the turn    *)
(* ends; no stage is entered twice, so a turn posts one request and does   *)
(* not post again after a failure.  While the request is awaited the turn  *)
(* has sent the engine the statements of the schema introspection and      *)
(* nothing else; the executor and the loader send nothing until a response *)
(* with an answer has arrived.                                             *)
(***************************************************************************)
StageEdges ==
    {<<"idle", "rejected">>, <<"idle", "L66">>, <<"L66", "done">>, <<"L66", "L165">>,
     <<"L165", "L199">>, <<"L199", "L229">>, <<"L199", "L235">>, <<"L199", "L243">>,
     <<"L229", "L243">>, <<"L235", "L243">>, <<"L243", "done">>}

C14_SchemaThenModelThenAction ==
    \A h \in Handlers :
        /\ pc[h] = "L165" => sent[h] = <<>>
        /\ pc[h] = "L199" =>
              /\ sent[h] # <<>>
              /\ \A i \in 1..Len(sent[h]) : sent[h][i].by = "get_db_schema"
              /\ schema[h] # <<>>
              /\ response[h] = NoResponse
        /\ pc[h] \in {"L229", "L235"} => Answered(h) /\ ActionStatements(h) = <<>>
        /\ (pc[h] = "L243" /\ ActionStatements(h) # <<>>) => Answered(h)

C14_TurnStep ==
    \A h \in Handlers :
        /\ pc'[h] # pc[h] => <<pc[h], pc'[h]>> \in StageEdges
        /\ (sent'[h] # sent[h] \/ response'[h] # response[h]
               \/ schema'[h] # schema[h] \/ Len(EntriesOf(h)') # Len(EntriesOf(h))) =>
              pc'[h] # pc[h]

C14_StagesInOrder == []C14_SchemaThenModelThenAction /\ [][C14_TurnStep]_vars

\* a turn whose request failed has ended after the introspection and one error
C14_Witness ==
    \E h \in Handlers :
        /\ pc[h] = "L243"
        /\ response[h].fault
        /\ sent[h] # <<>>
        /\ Dispatched(h) = <<>>
        /\ Said(h) = << <<"An error occurred:">> >>

(***************************************************************************)
(* C15.  When create_table_from_csv has loaded an existing CSV file into   *)
(* table T (the engine accepted the statement), the catalogue of the       *)
(* session's database holds T once, with the columns of the file's header  *)
(* row, and its other tables as before, whether or not it held a table T   *)
(* already; the turn has appended the confirmation and then a listing that *)
(* includes T; and the schema a later turn reads names the tables of the   *)
(* catalogue with their columns.                                           *)
(***************************************************************************)
LoadErrors ==
    {"Error: File not found or no DB connection.", "Error creating table from CSV:",
     "An error occurred:", "Database connection lost."}

\* the entries a step appended to the history of session s
Appended(s) == SubSeq(chat_history'[s], Len(chat_history[s]) + 1, Len(chat_history'[s]))

C15_LoadStep(h) ==
    LET s == sess[h]
        db == db_name[s]
        T == action[h].table_name
        file == action[h].file_path
        new == Appended(s)
    IN  (/\ pc[h] = "L235" /\ pc'[h] = "L243"
         /\ path_exists(file)
         /\ new # <<>> /\ new[1].text[1] \notin LoadErrors) =>
            /\ db \in DOMAIN tables'
            /\ tables'[db] = DictSet(Catalogue(tables, db), T, CsvHeader(file))
            /\ \A other \in DOMAIN tables' \ {db} :
                  other \in DOMAIN tables /\ tables'[other] = tables[other]
            /\ Len(new) = 2
            /\ new[1] = SystemEntry(<<"Successfully created table", T, file>>, h)
            /\ new[2].role = "system"
            /\ new[2].text[1] = "Tables in the database:"
            /\ T \in new[2].text[2]
            /\ new[2].text[2] = DOMAIN tables'[db]

C15_DescribeShowsCatalogue ==
    \A h \in Handlers :
        pc[h] = "L199" =>
            LET tabs == Catalogue(tables, db_name[sess[h]])
            IN  schema[h] = IF DOMAIN tabs # {}
                            THEN <<"### Table:", tabs>>
                            ELSE <<"No tables in the database.">>

C15_ReplacedOnce ==
    \E h, k \in Handlers :
        /\ h < k
        /\ Len(Said(h)) >= 2
        /\ Said(h)[2] = <<"Successfully created table", "members", "members.csv">>
        /\ pc[k] = "L243"
        /\ Len(Said(k)) = 3
        /\ Said(k)[2] = <<"Successfully created table", "members", "employees.csv">>
        /\ Said(k)[3] = <<"Tables in the database:", {"members"}>>
        /\ tables[db_name[sess[k]]] = [members |-> CsvHeader("employees.csv")]

(***************************************************************************)
(* C16.  When the model's answer contains exactly one JSON object, with    *)
(* any text before and after it, text with braces included, the turn acts  *)
(* on that object: it does not end in the extraction error, and the action *)
(* it takes is the one the embedded object parses to.                      *)
(***************************************************************************)
\* the spans of the answer that parse as a JSON object
ObjectSpans(text) ==
    {sp \in (1..Len(text)) \X (1..Len(text)) :
        sp[1] <= sp[2] /\ json_loads(SubSeq(text, sp[1], sp[2])).ok}

HasOneObject(text) == Cardinality(ObjectSpans(text)) = 1

EmbeddedObject(text) ==
    LET sp == CHOOSE x \in ObjectSpans(text) : TRUE
    IN  json_loads(SubSeq(text, sp[1], sp[2])).value

ActsOnEmbeddedObject(h) ==
    /\ action[h] = EmbeddedObject(response[h].text)
    /\ Said(h)[1][1] # "An error occurred:"

C16_ExtractsEmbeddedObject ==
    \A h \in Handlers :
        (Answered(h) /\ HasOneObject(response[h].text)) => ActsOnEmbeddedObject(h)

\* the same, for answers whose only braces are those of the object
C16_ProseWithoutBraces ==
    \A h \in Handlers :
        (/\ Answered(h)
         /\ HasOneObject(response[h].text)
         /\ Cardinality(Positions(response[h].text, "{")) = 1
         /\ Cardinality(Positions(response[h].text, "}")) = 1) => ActsOnEmbeddedObject(h)

(***************************************************************************)
(* C17.  A response of the model is reported as an API error (one system   *)
(* entry, nothing extracted, nothing dispatched, no statement) exactly     *)
(* when its HTTP status is outside 200..299; a response with a status in   *)
(* 200..299 goes on to the extraction.                                     *)
(***************************************************************************)
Is2xx(status) == status \in 200..299

\* the response of turn h has arrived
Responded(h) == pc[h] \in {"L229", "L235", "L243"} /\ ~response[h].fault

ReportedAsApiError(h) ==
    /\ Said(h) = << <<"API Error:">> >>
    /\ action[h] = NoAction
    /\ Dispatched(h) = <<>>

C17_ApiErrorIffNot2xx ==
    \A h \in Handlers :
        Responded(h) =>
            /\ ~Is2xx(response[h].status) => ReportedAsApiError(h)
            /\ Is2xx(response[h].status) =>
                  \A i \in 1..Len(Said(h)) : Said(h)[i][1] # "API Error:"

\* the same, with 200 as the only status that goes on to the extraction
C17_ApiErrorIffNot200 ==
    \A h \in Handlers :
        Responded(h) =>
            /\ response[h].status # HTTP_OK => ReportedAsApiError(h)
            /\ response[h].status = HTTP_OK =>
                  \A i \in 1..Len(Said(h)) : Said(h)[i][1] # "API Error:"

(***************************************************************************)
(* C18.  An invocation of handle_submit whose text is blank, or whose      *)
(* session's processing flag is set, returns at line 61: the step changes  *)
(* neither chat_history, db_name, is_connected, processing nor the         *)
(* registry, the engine's tables or the statements sent, and the           *)
(* invocation never does anything afterwards.                              *)
(***************************************************************************)
C18_RejectStep(h) ==
    (/\ pc[h] = "idle" /\ pc'[h] # "idle"
     /\ (strip(question'[h]) = <<>> \/ processing[sess'[h]])) =>
        /\ pc'[h] = "rejected"
        /\ UNCHANGED <<chat_history, db_name, is_connected, processing,
                       connections, open_log, tables, sent, response>>

C18_RejectedIsInert ==
    \A h \in Handlers :
        pc[h] = "rejected" =>
            /\ sent[h] = <<>>
            /\ response[h] = NoResponse
            /\ \A s \in Sessions :
                  \A i \in 1..Len(chat_history[s]) : chat_history[s][i].turn # h

C18_RejectedIsNoOp ==
    /\ []C18_RejectedIsInert
    /\ [][\A h \in Handlers :
             /\ C18_RejectStep(h)
             /\ pc[h] = "rejected" => pc'[h] = "rejected"]_vars

\* a question was rejected because a turn of its session is at the model call
C18_Witness ==
    \E h, k \in Handlers :
        /\ pc[h] = "L199"
        /\ pc[k] = "rejected" /\ sess[k] = sess[h] /\ strip(question[k]) # <<>>
        /\ processing[sess[h]]

(***************************************************************************)
(* C19.  Once a session is connected it stays connected and its db_name    *)
(* stays the same.  A connect command submitted in a connected session     *)
(* enters the pipeline like any other text: the step changes neither the   *)
(* registry nor db_name; and no step of an invocation whose session is     *)
(* connected opens a database.                                             *)
(***************************************************************************)
C19_StaysConnected ==
    \A s \in Sessions :
        is_connected[s] => is_connected'[s] /\ db_name'[s] = db_name[s]

C19_CommandWhileConnected(h) ==
    (pc[h] = "L66" /\ pc'[h] # "L66" /\ is_connected[sess[h]] /\ typed[h].cmd) =>
        /\ pc'[h] = "L165"
        /\ UNCHANGED <<connections, open_log, db_name, is_connected, chat_history>>

C19_NoOpenWhileConnected(h) ==
    (pc[h] # "idle" /\ pc'[h] # pc[h] /\ is_connected[sess[h]]) =>
        UNCHANGED <<connections, open_log>>

C19_ConnectionIsPermanent ==
    [][/\ C19_StaysConnected
       /\ \A h \in Handlers :
             C19_CommandWhileConnected(h) /\ C19_NoOpenWhileConnected(h)]_vars

\* a session connected to a.duckdb has "CONNECT TO  B.duckdb " at the model call
C19_Witness ==
    \E h \in Handlers :
        /\ pc[h] = "L199"
        /\ typed[h].cmd
        /\ typed[h].name = <<"B">> \o DuckdbExt
        /\ is_connected[sess[h]]
        /\ db_name[sess[h]] = <<"a">> \o DuckdbExt
        /\ \A i \in 1..Len(open_log) : open_log[i].db # <<"B">> \o DuckdbExt

(***************************************************************************)
(* C20.  A connected session has a non-empty db_name for which the         *)
(* registry holds a handle.  So every statement an invocation sends goes   *)
(* to the handle the registry holds for its session's db_name, and the     *)
(* branches for a missing handle are never taken: no "Database connection  *)
(* lost." entry, no "No database connection." schema, and the "File not    *)
(* found ... or no DB connection" entry only for a file that does not      *)
(* exist.                                                                  *)
(***************************************************************************)
C20_ConnectedHasHandle ==
    \A s \in Sessions :
        is_connected[s] => db_name[s] # <<>> /\ db_name[s] \in DOMAIN connections

C20_SameHandle ==
    \A h \in Handlers :
        sent[h] # <<>> =>
            /\ is_connected[sess[h]]
            /\ \A i \in 1..Len(sent[h]) :
                  sent[h][i].conn = connections[db_name[sess[h]]]

C20_NoLostConnection ==
    /\ \A h \in Handlers : schema[h] # <<"No database connection.">>
    /\ \A s \in Sessions :
          \A i \in 1..Len(chat_history[s]) :
              LET text == chat_history[s][i].text
              IN  /\ text # <<>> => text[1] # "Database connection lost."
                  /\ (/\ chat_history[s][i].role = "system"
                      /\ text[1] = "Error: File not found or no DB connection.") =>
                        ~path_exists(text[2])

C20_ConnectedImpliesRegistered ==
    C20_ConnectedHasHandle /\ C20_SameHandle /\ C20_NoLostConnection

\* a connected session whose connect turn and whose query both used handle 1
C20_Witness ==
    \E h, k \in Handlers :
        /\ sess[h] = sess[k]
        /\ is_connected[sess[h]]
        /\ connections[db_name[sess[h]]] = 1
        /\ pc[h] = "done" /\ typed[h].cmd /\ sent[h] # <<>>
        /\ pc[k] = "L243" /\ ActionStatements(k) # <<>>
        /\ ActionStatements(k)[1].conn = 1

====
